---- MODULE Spec2Model ----
(***************************************************************************)
(* Model of the Notion -> Gemini -> Slack pipeline (src/main.py and the    *)
(* three clients under src/clients/).                                      *)
(*                                                                         *)
(* Text is modelled as a sequence of one-character strings, so that        *)
(* str.strip(), str.join() and the f-strings of the source are computed    *)
(* character by character.  The Japanese literals of the source are        *)
(* written with ASCII stand-ins:                                           *)
(*   "本文" -> "Body",  "タイトル" -> "Title",  "(無題)" -> "(untitled)"     *)
(* and the messages of the source are abbreviated (see the Msg... texts).  *)
(***************************************************************************)
EXTENDS Integers, Sequences, FiniteSets, TLC

VARIABLES
    db,         \* remote store: sequence of pages (id, url, properties, blocks)
    processed,  \* remote store: the status checkbox of every page, by id
    config,     \* NotionConfig.content_properties
    calls,      \* every call received by the transform / notify / commit services
                \* (arg: the text or payload sent; for the commit, the outcome
                \* of its HTTP exchange)
    pc,         \* per run: position of run() / process_single_item()
    dry_run,    \* per run: the dry_run argument of run()
    items,      \* per run: list returned by get_unprocessed_items()
    idx,        \* per run: position of the for loop of run() in items
    local,      \* per run: gemini_result / slack_success of the item in progress
    results,    \* per run: the results list of run()
    ret,        \* per run: the value returned by run()
    env,        \* the required environment variables that are set
    exit_code,  \* per run: the code main() gave to sys.exit, NoExit before
    pin,        \* function under study and its arguments (SpecFn)
    pout        \* what the function under study returned (SpecFn)

vars == <<db, processed, config, calls, pc, dry_run, items, idx, local, results, ret,
          env, exit_code, pin, pout>>

(***************************************************************************)
(* Bounds of the model                                                     *)
(***************************************************************************)
\* MaxRecords: pages in the database.  MaxRuns: pipeline runs; Spec starts
\* the first one only.
MaxRecords == 2
MaxRuns == 2

Runs == 1..MaxRuns

(***************************************************************************)
(* Text helpers                                                            *)
(***************************************************************************)
Whitespace == {" ", "\n", "\t"}

RECURSIVE lstrip(_)
lstrip(s) ==
    IF s = <<>> THEN <<>>
    ELSE IF Head(s) \in Whitespace THEN lstrip(Tail(s)) ELSE s

RECURSIVE rstrip(_)
rstrip(s) ==
    IF s = <<>> THEN <<>>
    ELSE IF s[Len(s)] \in Whitespace THEN rstrip(SubSeq(s, 1, Len(s) - 1)) ELSE s

\* str.strip()
strip(s) == rstrip(lstrip(s))

\* sep.join(parts)
RECURSIVE join(_, _)
join(sep, parts) ==
    IF parts = <<>> THEN <<>>
    ELSE IF Len(parts) = 1 THEN parts[1]
    ELSE parts[1] \o sep \o join(sep, Tail(parts))

\* s[:n]
Slice(s, n) == SubSeq(s, 1, IF Len(s) < n THEN Len(s) ELSE n)

(***************************************************************************)
(* Attribute values of the remote store.  A JSON value that may be null is *)
(* Null or Some(x); Absent is a key the object does not carry.             *)
(***************************************************************************)
Absent == [k |-> "absent", v |-> <<>>]
Null == [k |-> "null", v |-> <<>>]
Some(x) == [k |-> "val", v |-> x]

\* Python truthiness of an optional text
Truthy(o) == o.k = "val" /\ o.v # <<>>

Digit(d) == <<"0", "1", "2", "3", "4", "5", "6", "7", "8", "9">>[d + 1]

\* str(n) for a natural number n
RECURSIVE IntToStr(_)
IntToStr(n) == IF n < 10 THEN <<Digit(n)>> ELSE IntToStr(n \div 10) \o <<Digit(n % 10)>>

\* str(None)
StrOfNone == <<"N", "o", "n", "e">>

\* str(b) for a bool
StrOfBool(b) == IF b THEN <<"T", "r", "u", "e">> ELSE <<"F", "a", "l", "s", "e">>

\* what _extract_property_value yields when str.join meets an entry that is
\* None: the TypeError leaves the function (no text has this value)
TypeError == <<"TypeError">>

\* the value of p.get("name", "") for an entry of a people attribute: the
\* default for a missing key, None for a null name
NameOf(o) == IF o.k = "absent" THEN Some(<<>>) ELSE o

\* ", ".join over the names of the entries of a people attribute
JoinNames(entries) ==
    IF \E k \in 1..Len(entries) : NameOf(entries[k]).k = "null"
    THEN TypeError
    ELSE join(<<",", " ">>, [k \in 1..Len(entries) |-> NameOf(entries[k]).v])

\* NotionClient._extract_property_value: prop is [type, val]
_extract_property_value(prop) ==
    CASE prop.type = "title" -> join(<<>>, prop.val)
      [] prop.type = "rich_text" -> join(<<>>, prop.val)
      [] prop.type = "number" ->
            IF prop.val.k = "absent" THEN <<>>
            ELSE IF prop.val.k = "null" THEN StrOfNone ELSE IntToStr(prop.val.v)
      [] prop.type = "select" ->
            IF prop.val.k = "val" THEN prop.val.v ELSE <<>>
      [] prop.type = "multi_select" -> join(<<",", " ">>, prop.val)
      [] prop.type = "date" ->
            IF prop.val.k = "val"
            THEN LET start == prop.val.v.start
                     end == prop.val.v.end
                 IN IF Truthy(end) THEN start \o <<" ", "-", " ">> \o end.v ELSE start
            ELSE <<>>
      [] prop.type = "checkbox" ->
            IF prop.val.k = "absent" THEN StrOfBool(FALSE)
            ELSE IF prop.val.k = "null" THEN StrOfNone ELSE StrOfBool(prop.val.v)
      [] prop.type = "url" -> IF Truthy(prop.val) THEN prop.val.v ELSE <<>>
      [] prop.type = "email" -> IF Truthy(prop.val) THEN prop.val.v ELSE <<>>
      [] prop.type = "phone_number" -> IF Truthy(prop.val) THEN prop.val.v ELSE <<>>
      [] prop.type = "people" -> JoinNames(prop.val)
      [] prop.type = "relation" -> join(<<",", " ">>, prop.val)
      [] OTHER -> <<>>

(***************************************************************************)
(* Configuration (src/config.py) and the remote store                      *)
(***************************************************************************)
Title == <<"T", "i", "t", "l", "e">>
Body == <<"B", "o", "d", "y">>
Untitled == <<"(", "u", "n", "t", "i", "t", "l", "e", "d", ")">>

\* load_config: NOTION_CONTENT_PROPERTIES defaults to the two-field list
DefaultContentProperties == <<Title, Body>>

\* page_size of the database query and of the block listing
PageSize == 100

Prop(n, t, v) == [name |-> n, prop |-> [type |-> t, val |-> v]]
Paragraph(runs) == [type |-> "paragraph", has_rich_text |-> TRUE, rich_text |-> runs]
NameProp == <<"N", "a", "m", "e">>

\* The pages a database is populated with in Init.  Every page has one
\* property of type title, named "Name" or (kinds "titled" and "untitled")
\* named as the first configured content field; "Body" is a rich_text
\* property.
\*   full, done : title "a", body "b" (done: already flagged processed)
\*   empty      : title "a", no body
\*   trail, lead: title "a " and " a", no body
\*   blocks     : title "a", no body attribute, text in the child blocks
\*   titled     : title "a" in the configured field, no body
\*   untitled   : empty title in the configured field, no body
PageKinds == {"full", "empty", "trail", "lead", "blocks", "titled", "untitled", "done"}

\* further pages for the study of the fetch: a body attribute with text and
\* blocks with text ("both"), a body attribute holding one space and blocks
\* with text ("space"), no body attribute and blocks with text ("nobody"),
\* no body attribute and no block ("bare"), a body attribute of kind number
\* whose value is null and no block ("nullnum")
FetchKinds == PageKinds \cup {"both", "space", "nobody", "bare", "nullnum"}

PageOf(kind, i) ==
    LET t == CASE kind = "trail" -> <<<<"a">>, <<" ">>>>
               [] kind = "lead" -> <<<<" ", "a">>>>
               [] kind = "untitled" -> <<>>
               [] OTHER -> <<<<"a">>>>
        n == IF kind \in {"titled", "untitled"} THEN Title ELSE NameProp
        b == IF kind \in {"full", "done", "both"} THEN <<<<"b">>>>
             ELSE IF kind = "space" THEN <<<<" ">>>> ELSE <<>>
        bl == IF kind \in {"blocks", "both", "space", "nobody"}
              THEN <<Paragraph(<<<<"c">>>>), Paragraph(<<>>)>> ELSE <<>>
    IN [id |-> i,
        url |-> <<"u">> \o IntToStr(i),
        properties |-> IF kind \in {"nobody", "bare"}
                       THEN <<Prop(n, "title", t)>>
                       ELSE IF kind = "nullnum"
                       THEN <<Prop(n, "title", t), Prop(Body, "number", Null)>>
                       ELSE <<Prop(n, "title", t), Prop(Body, "rich_text", b)>>,
        blocks |-> bl]

(***************************************************************************)
(* NotionClient (src/clients/notion_client.py)                             *)
(***************************************************************************)
\* Outcomes of one HTTP exchange (requests): a 2xx answer, raise_for_status
\* raising HTTPError, or any other RequestException (timeout, connection)
HttpOutcomes == {"ok", "HTTPError", "RequestException"}

\* NotionClient._make_request: the parsed answer, or NotionClientError
_make_request(http) == IF http = "ok" THEN "json" ELSE "NotionClientError"

\* NotionClient._get_page_content
_get_page_content(page, http) ==
    IF _make_request(http) = "NotionClientError" THEN <<>>
    ELSE LET blocks == Slice(page.blocks, PageSize)
             text(b) == IF b.has_rich_text THEN join(<<>>, b.rich_text) ELSE <<>>
             F[k \in 0..Len(blocks)] ==
                 IF k = 0 THEN <<>>
                 ELSE IF text(blocks[k]) # <<>> THEN Append(F[k - 1], text(blocks[k]))
                 ELSE F[k - 1]
         IN join(<<"\n">>, F[Len(blocks)])

\* dict operations on content, an insertion-ordered list of [name, value]
Has(d, name) == \E k \in 1..Len(d) : d[k].name = name
ContentGet(d, name) ==
    IF Has(d, name) THEN d[CHOOSE k \in 1..Len(d) : d[k].name = name].value ELSE <<>>
ContentSet(d, name, value) ==
    IF Has(d, name)
    THEN [k \in 1..Len(d) |-> IF d[k].name = name THEN [name |-> name, value |-> value] ELSE d[k]]
    ELSE Append(d, [name |-> name, value |-> value])

InSeq(x, s) == \E k \in 1..Len(s) : s[k] = x

\* Mutant of DirectContent: a configured attribute the page does not have is
\* entered with the empty text
DirectContent_AllConfigured(page, cfg) ==
    LET props == page.properties
        C[k \in 0..Len(cfg)] ==
            IF k = 0 THEN <<>>
            ELSE ContentSet(C[k - 1], cfg[k],
                   IF Has(props, cfg[k])
                   THEN _extract_property_value(
                          props[CHOOSE j \in 1..Len(props) : props[j].name = cfg[k]].prop)
                   ELSE <<>>)
    IN C[Len(cfg)]

\* the content dict after the loop over content_properties
\* (notion_client.py:211-216)
DirectContent(page, cfg) ==
    LET props == page.properties
        C[k \in 0..Len(cfg)] ==
            IF k = 0 THEN <<>>
            ELSE IF Has(props, cfg[k])
                 THEN ContentSet(C[k - 1], cfg[k],
                        _extract_property_value(
                          props[CHOOSE j \in 1..Len(props) : props[j].name = cfg[k]].prop))
                 ELSE C[k - 1]
    IN C[Len(cfg)]

\* Mutant of NeedsPageContent: the blocks are read whenever the body is configured
NeedsPageContent_WheneverConfigured(cfg, content) ==
    InSeq(Body, cfg)

\* the condition of the call of _get_page_content (notion_client.py:219)
NeedsPageContent(cfg, content) ==
    InSeq(Body, cfg) /\ ContentGet(content, Body) = <<>>

\* one iteration of the loop of get_unprocessed_items (notion_client.py:199-229)
ItemOf(page, cfg, http) ==
    LET props == page.properties
        titles == {k \in 1..Len(props) : props[k].prop.type = "title"}
        title == IF titles = {} THEN <<>>
                 ELSE _extract_property_value(
                        props[CHOOSE k \in titles : \A j \in titles : k <= j].prop)
        content == DirectContent(page, cfg)
        page_content == IF NeedsPageContent(cfg, content)
                        THEN _get_page_content(page, http) ELSE <<>>
        content2 == IF NeedsPageContent(cfg, content) /\ page_content # <<>>
                    THEN ContentSet(content, Body, page_content)
                    ELSE content
    IN [page_id |-> page.id,
        title |-> IF title # <<>> THEN title ELSE Untitled,
        content |-> content2,
        url |-> page.url]

\* Shape of a 2xx answer of the database query: a list of page objects, or a
\* body whose entries are not the objects the loop expects
QueryShapes == {"pages", "malformed"}

\* the loop of get_unprocessed_items calls .get on every entry without a
\* check: an entry that is not an object raises AttributeError, which is not
\* a NotionClientError (notion_client.py:199-207)
QueryRaises(shape) == shape = "malformed"

\* Mutant of QueryResults: the query carries no filter on the checkbox
QueryResults_Unfiltered(store, flags) ==
    Slice(store, PageSize)

\* the answer of the filtered database query: pages whose checkbox is false
QueryResults(store, flags) ==
    Slice(SelectSeq(store, LAMBDA p : ~flags[p.id]), PageSize)

\* NotionClient.get_unprocessed_items, given the query answer and the outcome
\* of the block listing of every page
get_unprocessed_items(store, flags, cfg, blockHttp) ==
    LET res == QueryResults(store, flags)
    IN [k \in 1..Len(res) |-> ItemOf(res[k], cfg, blockHttp[res[k].id])]

\* the ids of the pages whose blocks get_unprocessed_items lists, in order
\* (the calls of _get_page_content, notion_client.py:219-220)
BlockListings(store, flags, cfg) ==
    LET res == QueryResults(store, flags)
        listed == SelectSeq(res, LAMBDA p : NeedsPageContent(cfg, DirectContent(p, cfg)))
    IN [k \in 1..Len(listed) |-> listed[k].id]

\* Mutant of mark_as_processed: the failure is swallowed and True returned
mark_as_processed_AlwaysTrue(http) == TRUE

\* NotionClient.mark_as_processed: the returned bool
mark_as_processed(http) == _make_request(http) # "NotionClientError"

(***************************************************************************)
(* GeminiClient (src/clients/gemini_client.py)                             *)
(***************************************************************************)
\* What the remote generation call does: answers with text, answers with no
\* usable text (blocked prompt), or raises
GeminiOutcomes == {"text", "notext", "error"}

\* the text the model answers with
ModelText == <<"r">>

\* str(e) of the GeminiClientError raised for an answer without text
\* ("Gemini APIから有効な応答を取得できませんでした") and for a failed call
\* ("Gemini API呼び出しに失敗: ...")
MsgGeminiNoText == <<"G", "0">>
MsgGeminiCallFailed == <<"G", "1">>

\* Mutant of process: blank content is sent to the model like any other
process_NoBlankGuard(content, remote) ==
    IF remote = "text"
    THEN [kind |-> "return", text |-> ModelText, msg |-> <<>>, called |-> TRUE]
    ELSE IF remote = "notext"
         THEN [kind |-> "raise", text |-> <<>>, msg |-> MsgGeminiNoText, called |-> TRUE]
    ELSE [kind |-> "raise", text |-> <<>>, msg |-> MsgGeminiCallFailed, called |-> TRUE]

\* GeminiClient.process: [kind |-> "return", text] or [kind |-> "raise", msg];
\* called is whether generate_content was invoked
process(content, remote) ==
    IF content = <<>> \/ strip(content) = <<>>
    THEN [kind |-> "return", text |-> <<>>, msg |-> <<>>, called |-> FALSE]
    ELSE IF remote = "text"
         THEN [kind |-> "return", text |-> ModelText, msg |-> <<>>, called |-> TRUE]
    ELSE IF remote = "notext"
         THEN [kind |-> "raise", text |-> <<>>, msg |-> MsgGeminiNoText, called |-> TRUE]
    ELSE [kind |-> "raise", text |-> <<>>, msg |-> MsgGeminiCallFailed, called |-> TRUE]

(***************************************************************************)
(* SlackClient (src/clients/slack_client.py)                               *)
(***************************************************************************)
Ok == <<"o", "k">>

\* What the webhook does: the HTTP outcome and the body of the answer
SlackResponses ==
    {[http |-> "ok", text |-> Ok],
     [http |-> "ok", text |-> <<"n", "o">>],
     [http |-> "HTTPError", text |-> <<>>],
     [http |-> "RequestException", text |-> <<>>]}

\* str(e) of the SlackClientError raised by send_message
MsgSlackError == <<"S", "1">>

\* Mutant of send_message: the body is compared after stripping whitespace
send_message_Stripped(resp) ==
    IF resp.http = "ok"
    THEN IF strip(resp.text) = Ok THEN "True" ELSE "False"
    ELSE "SlackClientError"

\* SlackClient.send_message: "True", "False" or "SlackClientError" (raised)
send_message(resp) ==
    IF resp.http = "ok"
    THEN IF resp.text = Ok THEN "True" ELSE "False"
    ELSE "SlackClientError"

OriginalLimit == 300
ResultLimit == 3000
FallbackLimit == 500
Ellipsis == <<".", ".", ".">>
\* stand-ins for the emoji prefixes of the header and of the fallback text
Memo == <<"*", " ">>
Warn == <<"!", " ">>

\* truncated_original of send_processed_result (slack_client.py:102-105);
\* no block and no text of the payload uses it
truncated_original(original_content) ==
    IF Len(original_content) > OriginalLimit
    THEN Slice(original_content, OriginalLimit) \o Ellipsis
    ELSE original_content

\* stand-in for the text of the context block of send_processed_result
Robot == <<"~">>

\* Mutant of ProcessedPayload: the section is cut to the limit with the
\* ellipsis inside it, and the fallback carries the ellipsis only when cut
ProcessedPayload_EllipsisWhenCut(title, original_content, processed_result, notion_url) ==
    [header |-> Memo \o title,
     section |-> IF Len(processed_result) > ResultLimit
                 THEN Slice(processed_result, ResultLimit - Len(Ellipsis)) \o Ellipsis
                 ELSE processed_result,
     button |-> notion_url # <<>>,
     context |-> Robot,
     text |-> Memo \o title \o <<"\n", "\n">>
              \o IF Len(processed_result) > FallbackLimit
                 THEN Slice(processed_result, FallbackLimit) \o Ellipsis
                 ELSE processed_result]

\* SlackClient.send_processed_result: the payload handed to send_message
\* (text and the header, section, button and context blocks)
ProcessedPayload(title, original_content, processed_result, notion_url) ==
    [header |-> Memo \o title,
     section |-> Slice(processed_result, ResultLimit),
     button |-> notion_url # <<>>,
     context |-> Robot,
     text |-> Memo \o title \o <<"\n", "\n">>
              \o Slice(processed_result, FallbackLimit) \o Ellipsis]

\* SlackClient.send_error_notification: the payload handed to send_message
ErrorPayload(title, error_message, notion_url) ==
    [header |-> Warn,
     section |-> title \o <<"\n">> \o error_message,
     button |-> notion_url # <<>>,
     text |-> Warn \o title \o <<" ", "-", " ">> \o error_message]

(***************************************************************************)
(* NotionGeminiSlackPipeline (src/main.py)                                 *)
(***************************************************************************)
\* error_message texts of process_single_item: "コンテンツが空です",
\* "Geminiから有効な応答がありませんでした" and "予期しないエラー: {e}"
MsgEmptyContent == <<"E", "0">>
MsgNoValidResponse == <<"E", "1">>
MsgUnexpected(e) == <<"E", "2", ":", " ">> \o e

\* NotionGeminiSlackPipeline._build_gemini_input
_build_gemini_input(item) ==
    LET c == item.content
        P[k \in 0..Len(c)] ==
            IF k = 0 THEN << <<"#", " ">> \o item.title >>
            ELSE IF c[k].value # <<>>
                 THEN Append(P[k - 1],
                        <<"\n", "#", "#", " ">> \o c[k].name \o <<"\n">> \o c[k].value)
                 ELSE P[k - 1]
    IN join(<<"\n">>, P[Len(c)])

\* the empty-content test of process_single_item (main.py:79)
IsEmptyInput(item) ==
    LET gemini_input == _build_gemini_input(item)
    IN strip(gemini_input) = <<>> \/ strip(gemini_input) = <<"#", " ">> \o item.title

\* original_content of process_single_item (main.py:98-100)
OriginalContent(item) ==
    LET c == item.content
        P[k \in 0..Len(c)] ==
            IF k = 0 THEN <<>>
            ELSE IF c[k].value # <<>>
                 THEN Append(P[k - 1], c[k].name \o <<":", " ">> \o c[k].value)
                 ELSE P[k - 1]
    IN join(<<"\n">>, P[Len(c)])

ProcessingResult(item, success, gemini_result, error_message) ==
    [item |-> item, success |-> success, gemini_result |-> gemini_result,
     error_message |-> error_message]

\* the except clauses of process_single_item (main.py:123-139)
Caught(item, exc, msg) ==
    IF exc = "GeminiClientError"
    THEN ProcessingResult(item, FALSE, <<>>, msg)
    ELSE ProcessingResult(item, FALSE, <<>>, MsgUnexpected(msg))

\* Mutant of Completed: an undelivered notification or a failed commit makes
\* the item a failure
Completed_RequireDelivery(item, gemini_result, slack_success, notion_update_success) ==
    IF slack_success /\ notion_update_success
    THEN ProcessingResult(item, TRUE, gemini_result, <<>>)
    ELSE ProcessingResult(item, FALSE, <<>>, MsgUnexpected(MsgSlackError))

\* the result of process_single_item once notify and commit have returned
\* (main.py:108-121)
Completed(item, gemini_result, slack_success, notion_update_success) ==
    ProcessingResult(item, TRUE, gemini_result, <<>>)

\* Mutant of NeedsErrorNotification: a skipped empty item is not reported
NeedsErrorNotification_NotForEmpty(result) ==
    ~result.success /\ result.error_message # <<>> /\ result.error_message # MsgEmptyContent

\* run() sends an error notification for this result (main.py:179)
NeedsErrorNotification(result) == ~result.success /\ result.error_message # <<>>

NoLocal == [gemini_result |-> <<>>, slack_success |-> FALSE, notion_update_success |-> FALSE]

Call(r, op, id, out, arg) == [run |-> r, op |-> op, id |-> id, out |-> out, arg |-> arg]

CurrentItem(r) == items[r][idx[r]]

\* the for loop of run() moves to the next item, or run() returns results
NextItem(r, rs) ==
    IF idx[r] < Len(items[r])
    THEN /\ pc' = [pc EXCEPT ![r] = "process"]
         /\ idx' = [idx EXCEPT ![r] = idx[r] + 1]
         /\ ret' = ret
    ELSE /\ pc' = [pc EXCEPT ![r] = "done"]
         /\ idx' = idx
         /\ ret' = [ret EXCEPT ![r] = rs]

\* Mutant of AfterResult: a failed item is not recorded in results
AfterResult_SkipFailed(r, result) ==
    LET rs == IF result.success THEN Append(results[r], result) ELSE results[r]
    IN /\ results' = [results EXCEPT ![r] = rs]
       /\ local' = [local EXCEPT ![r] = NoLocal]
       /\ NextItem(r, rs)

\* Mutant of AfterResult: the first failed item ends the batch
AfterResult_StopOnFailure(r, result) ==
    LET rs == Append(results[r], result)
    IN /\ results' = [results EXCEPT ![r] = rs]
       /\ local' = [local EXCEPT ![r] = NoLocal]
       /\ IF result.success
          THEN NextItem(r, rs)
          ELSE /\ pc' = [pc EXCEPT ![r] = "done"]
               /\ idx' = idx
               /\ ret' = [ret EXCEPT ![r] = rs]

\* process_single_item has returned result: run() appends it (main.py:175-179)
AfterResult(r, result) ==
    LET rs == Append(results[r], result)
    IN /\ results' = [results EXCEPT ![r] = rs]
       /\ local' = [local EXCEPT ![r] = NoLocal]
       /\ IF NeedsErrorNotification(result)
          THEN /\ pc' = [pc EXCEPT ![r] = "notify_failure"]
               /\ UNCHANGED <<idx, ret>>
          ELSE NextItem(r, rs)

\* Mutant of Sequel: the record is committed before the notification is sent
Sequel_CommitFirst(step) ==
    CASE step = "transform" -> "commit"
      [] step = "commit" -> "notify"
      [] step = "notify" -> "return"

\* the order of the calls of process_single_item after a successful call:
\* transform, then notify, then commit, then the return of the result
\* (main.py:87-121)
Sequel(step) ==
    CASE step = "transform" -> "notify"
      [] step = "notify" -> "commit"
      [] step = "commit" -> "return"

\* process_single_item goes on after the call of step answered without raising
Proceed(r, step, loc) ==
    IF Sequel(step) = "return"
    THEN AfterResult(r, Completed(CurrentItem(r), loc.gemini_result,
                                  loc.slack_success, loc.notion_update_success))
    ELSE /\ pc' = [pc EXCEPT ![r] = Sequel(step)]
         /\ local' = [local EXCEPT ![r] = loc]
         /\ UNCHANGED <<idx, results, ret>>

\* Mutant of AfterFetch: the dry_run flag is not looked at
AfterFetch_IgnoreDryRun(failed, fetched, dry) ==
    IF failed THEN "done"
    ELSE IF fetched = <<>> THEN "done" ELSE "process"

\* Mutant of AfterFetch: NotionClientError is not caught and leaves run()
AfterFetch_FetchErrorEscapes(failed, fetched, dry) ==
    IF failed THEN "raised"
    ELSE IF fetched = <<>> THEN "done"
    ELSE IF dry THEN "done" ELSE "process"

\* what run() does once the fetch has answered or raised NotionClientError:
\* it returns [] ("done") or enters the for loop ("process") (main.py:153-173)
AfterFetch(failed, fetched, dry) ==
    IF failed THEN "done"
    ELSE IF fetched = <<>> THEN "done"
    ELSE IF dry THEN "done" ELSE "process"

\* run(dry_run) up to the end of the fetch (main.py:151-173)
Fetch(r) ==
    /\ pc[r] = "idle"
    /\ \E dry \in BOOLEAN, http \in HttpOutcomes, shape \in QueryShapes,
          blockHttp \in [1..Len(db) -> HttpOutcomes] :
         LET failed == _make_request(http) = "NotionClientError"
             escaped == ~failed /\ QueryRaises(shape)
             fetched == IF failed \/ escaped THEN <<>>
                        ELSE get_unprocessed_items(db, processed, config, blockHttp)
             to == IF escaped THEN "raised" ELSE AfterFetch(failed, fetched, dry)
         IN /\ dry_run' = [dry_run EXCEPT ![r] = dry]
            /\ items' = [items EXCEPT ![r] = fetched]
            /\ calls' = Append(calls, Call(r, "fetch", 0,
                                 IF failed THEN "NotionClientError"
                                 ELSE IF escaped THEN "AttributeError" ELSE "ok", <<>>))
            /\ pc' = [pc EXCEPT ![r] = to]
            /\ idx' = [idx EXCEPT ![r] = IF to = "process" THEN 1 ELSE 0]
            /\ results' = [results EXCEPT ![r] = <<>>]
            /\ ret' = [ret EXCEPT ![r] = <<>>]
    /\ UNCHANGED <<db, processed, config, local, env, exit_code, pin, pout>>

\* Mutant of SkipEmpty: a record without content is committed as processed
SkipEmpty_Commits(r) ==
    /\ pc[r] = "process"
    /\ IsEmptyInput(CurrentItem(r))
    /\ processed' = [processed EXCEPT ![CurrentItem(r).page_id] = TRUE]
    /\ calls' = Append(calls, Call(r, "mark_processed", CurrentItem(r).page_id,
                                   "True", "ok"))
    /\ AfterResult(r, ProcessingResult(CurrentItem(r), FALSE, <<>>, MsgEmptyContent))
    /\ UNCHANGED <<db, config, dry_run, items, env, exit_code, pin, pout>>

\* process_single_item: the content is empty (main.py:75-85)
SkipEmpty(r) ==
    /\ pc[r] = "process"
    /\ IsEmptyInput(CurrentItem(r))
    /\ AfterResult(r, ProcessingResult(CurrentItem(r), FALSE, <<>>, MsgEmptyContent))
    /\ UNCHANGED <<db, processed, config, calls, dry_run, items, env, exit_code, pin, pout>>

\* process_single_item: the call of gemini.process (main.py:87-95, 123-130)
Transform(r) ==
    /\ pc[r] = "process"
    /\ ~IsEmptyInput(CurrentItem(r))
    /\ \E remote \in GeminiOutcomes :
         LET item == CurrentItem(r)
             gemini_input == _build_gemini_input(item)
             res == process(gemini_input, remote)
         IN /\ calls' = Append(calls, Call(r, "transform", item.page_id,
                                 IF res.kind = "raise" THEN "GeminiClientError"
                                 ELSE IF res.text = <<>> THEN "empty" ELSE "text",
                                 gemini_input))
            /\ IF res.kind = "raise"
               THEN AfterResult(r, Caught(item, "GeminiClientError", res.msg))
               ELSE IF res.text = <<>>
               THEN AfterResult(r, ProcessingResult(item, FALSE, <<>>, MsgNoValidResponse))
               ELSE Proceed(r, "transform", [local[r] EXCEPT !.gemini_result = res.text])
    /\ UNCHANGED <<db, processed, config, dry_run, items, env, exit_code, pin, pout>>

\* process_single_item: the call of slack.send_processed_result
\* (main.py:97-109, 132-139)
NotifySuccess(r) ==
    /\ pc[r] = "notify"
    /\ \E resp \in SlackResponses :
         LET item == CurrentItem(r)
             out == send_message(resp)
         IN /\ calls' = Append(calls, Call(r, "notify_success", item.page_id, out,
                                 ProcessedPayload(item.title, OriginalContent(item),
                                                  local[r].gemini_result, item.url)))
            /\ IF out = "SlackClientError"
               THEN AfterResult(r, Caught(item, "SlackClientError", MsgSlackError))
               ELSE Proceed(r, "notify", [local[r] EXCEPT !.slack_success = (out = "True")])
    /\ UNCHANGED <<db, processed, config, dry_run, items, env, exit_code, pin, pout>>

\* Mutant of MarkProcessed: a failed update raises instead of returning False
MarkProcessed_FailureRaises(r) ==
    /\ pc[r] = "commit"
    /\ \E http \in HttpOutcomes :
         LET item == CurrentItem(r)
             notion_update_success == mark_as_processed(http)
         IN /\ processed' = IF notion_update_success
                            THEN [processed EXCEPT ![item.page_id] = TRUE]
                            ELSE processed
            /\ calls' = Append(calls, Call(r, "mark_processed", item.page_id,
                                 IF notion_update_success THEN "True"
                                 ELSE "NotionClientError", http))
            /\ IF notion_update_success
               THEN Proceed(r, "commit",
                            [local[r] EXCEPT !.notion_update_success = TRUE])
               ELSE AfterResult(r, Caught(item, "NotionClientError", <<"N", "1">>))
    /\ UNCHANGED <<db, config, dry_run, items, env, exit_code, pin, pout>>

\* Mutant of MarkProcessed: the accepted update does not set the checkbox
MarkProcessed_FlagNotSet(r) ==
    /\ pc[r] = "commit"
    /\ \E http \in HttpOutcomes :
         LET item == CurrentItem(r)
             notion_update_success == mark_as_processed(http)
         IN /\ processed' = processed
            /\ calls' = Append(calls, Call(r, "mark_processed", item.page_id,
                                 IF notion_update_success THEN "True" ELSE "False", http))
            /\ Proceed(r, "commit",
                       [local[r] EXCEPT !.notion_update_success = notion_update_success])
    /\ UNCHANGED <<db, config, dry_run, items, env, exit_code, pin, pout>>

\* process_single_item: the call of notion.mark_as_processed and the return
\* of the result (main.py:111-121)
MarkProcessed(r) ==
    /\ pc[r] = "commit"
    /\ \E http \in HttpOutcomes :
         LET item == CurrentItem(r)
             notion_update_success == mark_as_processed(http)
         IN /\ processed' = IF notion_update_success
                            THEN [processed EXCEPT ![item.page_id] = TRUE]
                            ELSE processed
            /\ calls' = Append(calls, Call(r, "mark_processed", item.page_id,
                                 IF notion_update_success THEN "True" ELSE "False", http))
            /\ Proceed(r, "commit",
                       [local[r] EXCEPT !.notion_update_success = notion_update_success])
    /\ UNCHANGED <<db, config, dry_run, items, env, exit_code, pin, pout>>

\* Mutant of NotifyFailure: SlackClientError is not caught and leaves run()
NotifyFailure_Uncaught(r) ==
    /\ pc[r] = "notify_failure"
    /\ \E resp \in SlackResponses :
         LET item == CurrentItem(r)
             result == results[r][Len(results[r])]
             out == send_message(resp)
         IN /\ calls' = Append(calls, Call(r, "notify_failure", item.page_id, out,
                                 ErrorPayload(item.title, result.error_message, item.url)))
            /\ IF out = "SlackClientError"
               THEN /\ pc' = [pc EXCEPT ![r] = "raised"]
                    /\ UNCHANGED <<idx, ret>>
               ELSE NextItem(r, results[r])
    /\ UNCHANGED <<db, processed, config, dry_run, items, local, results, env, exit_code, pin, pout>>

\* run(): the call of slack.send_error_notification in its try/except
\* (main.py:178-187)
NotifyFailure(r) ==
    /\ pc[r] = "notify_failure"
    /\ \E resp \in SlackResponses :
         LET item == CurrentItem(r)
             result == results[r][Len(results[r])]
             out == send_message(resp)
         IN /\ calls' = Append(calls, Call(r, "notify_failure", item.page_id, out,
                                 ErrorPayload(item.title, result.error_message, item.url)))
            /\ NextItem(r, results[r])
    /\ UNCHANGED <<db, processed, config, dry_run, items, local, results, env, exit_code, pin, pout>>

(***************************************************************************)
(* Configuration (src/config.py) and main() (src/main.py)                  *)
(***************************************************************************)
\* the variables read with _get_required_env, in the order load_config reads
\* them
RequiredEnv == <<"NOTION_API_KEY", "NOTION_DATABASE_ID", "GEMINI_API_KEY",
                 "SLACK_WEBHOOK_URL">>

\* _get_required_env: a variable that is unset or empty raises ValueError
_get_required_env(e, key) == IF key \in e THEN "value" ELSE "ValueError"

\* load_config: the AppConfig, or the ValueError of the first missing variable
load_config(e) ==
    IF \E k \in 1..Len(RequiredEnv) : _get_required_env(e, RequiredEnv[k]) = "ValueError"
    THEN "ValueError" ELSE "AppConfig"

\* exit_code of a process that has not called sys.exit
NoExit == -1

\* the except clauses of main(), in order (main.py:240-250)
ExitOnException(exc) ==
    IF exc = "ValueError" THEN 2
    ELSE IF exc = "KeyboardInterrupt" THEN 130
    ELSE 1

\* Mutant of ExitOnReturn: one successful item is enough for exit code 0
ExitOnReturn_AnySuccess(dry, rs) ==
    IF dry THEN 0
    ELSE IF rs = <<>> THEN 0
    ELSE IF \E k \in 1..Len(rs) : rs[k].success THEN 0 ELSE 1

\* the exit code of main() once run() has returned rs (main.py:227-238)
ExitOnReturn(dry, rs) ==
    IF dry THEN 0
    ELSE IF rs = <<>> THEN 0
    ELSE IF \A k \in 1..Len(rs) : rs[k].success THEN 0 ELSE 1

\* main() up to the call of pipeline.run (main.py:218-225, 240-242)
LoadConfig(r) ==
    /\ pc[r] = "boot"
    /\ IF load_config(env) = "ValueError"
       THEN /\ pc' = [pc EXCEPT ![r] = "config_error"]
            /\ exit_code' = [exit_code EXCEPT ![r] = ExitOnException("ValueError")]
       ELSE /\ pc' = [pc EXCEPT ![r] = "idle"]
            /\ exit_code' = exit_code
    /\ UNCHANGED <<db, processed, config, calls, dry_run, items, idx, local, results,
                   ret, env, pin, pout>>

\* main() after pipeline.run has returned or raised (main.py:227-238, 248-250)
Exit(r) ==
    /\ pc[r] \in {"done", "raised"}
    /\ exit_code[r] = NoExit
    /\ exit_code' = [exit_code EXCEPT ![r] =
                        IF pc[r] = "raised" THEN ExitOnException("Exception")
                        ELSE ExitOnReturn(dry_run[r], ret[r])]
    /\ UNCHANGED <<db, processed, config, calls, pc, dry_run, items, idx, local,
                   results, ret, env, pin, pout>>

(***************************************************************************)
(* Specification: one run of the pipeline over a populated database        *)
(***************************************************************************)
NoFn == [fn |-> "none"]

Init ==
    /\ \E n \in 0..MaxRecords : \E kinds \in [1..n -> PageKinds] :
          /\ db = [i \in 1..n |-> PageOf(kinds[i], i)]
          /\ processed = [i \in 1..n |-> kinds[i] = "done"]
    /\ config = DefaultContentProperties
    /\ calls = <<>>
    /\ pc = [r \in Runs |-> IF r = 1 THEN "boot" ELSE "off"]
    /\ dry_run = [r \in Runs |-> FALSE]
    /\ items = [r \in Runs |-> <<>>]
    /\ idx = [r \in Runs |-> 0]
    /\ local = [r \in Runs |-> NoLocal]
    /\ results = [r \in Runs |-> <<>>]
    /\ ret = [r \in Runs |-> <<>>]
    /\ env \in SUBSET {RequiredEnv[k] : k \in 1..Len(RequiredEnv)}
    /\ exit_code = [r \in Runs |-> NoExit]
    /\ pin = NoFn
    /\ pout = NoFn

Next ==
    \E r \in Runs :
        \/ LoadConfig(r)
        \/ Exit(r)
        \/ Fetch(r)
        \/ SkipEmpty(r)
        \/ Transform(r)
        \/ NotifySuccess(r)
        \/ MarkProcessed(r)
        \/ NotifyFailure(r)

Spec == Init /\ [][Next]_vars

(***************************************************************************)
(* Specifications: several processes over the same database.  The program  *)
(* takes no lock (main.py:224-225): SpecRace lets the processes interleave *)
(* freely, SpecSeq starts a process when the previous one has exited (one  *)
(* scheduled run after the other).                                         *)
(***************************************************************************)
\* MaxFaults: calls that fail or are refused in an execution of several runs
MaxFaults == 1

\* the pages a record of the shared database is drawn from: one with content,
\* one without, one already processed
SharedKinds == {"full", "empty", "done"}

InitRuns ==
    /\ \E n \in 0..MaxRecords : \E kinds \in [1..n -> SharedKinds] :
          /\ db = [i \in 1..n |-> PageOf(kinds[i], i)]
          /\ processed = [i \in 1..n |-> kinds[i] = "done"]
    /\ config = DefaultContentProperties
    /\ calls = <<>>
    /\ pc = [r \in Runs |-> "boot"]
    /\ dry_run = [r \in Runs |-> FALSE]
    /\ items = [r \in Runs |-> <<>>]
    /\ idx = [r \in Runs |-> 0]
    /\ local = [r \in Runs |-> NoLocal]
    /\ results = [r \in Runs |-> <<>>]
    /\ ret = [r \in Runs |-> <<>>]
    /\ env \in SUBSET {RequiredEnv[k] : k \in 1..Len(RequiredEnv)}
    /\ exit_code = [r \in Runs |-> NoExit]
    /\ pin = NoFn
    /\ pout = NoFn

\* the calls of the log that failed or were refused
Faults(cs) == SelectSeq(cs, LAMBDA c : c.out \notin {"ok", "text", "True"})

\* processes start in the order of their number
InOrder(r) == \A q \in 1..(r - 1) : pc[q] # "boot"

\* every process started before r has exited
Quiet(r) == \A q \in 1..(r - 1) : exit_code[q] # NoExit

NextRace ==
    /\ \E r \in Runs :
          \/ InOrder(r) /\ LoadConfig(r)
          \/ Exit(r)
          \/ Fetch(r)
          \/ SkipEmpty(r)
          \/ Transform(r)
          \/ NotifySuccess(r)
          \/ MarkProcessed(r)
          \/ NotifyFailure(r)
    /\ Len(Faults(calls')) <= MaxFaults

SpecRace == InitRuns /\ [][NextRace]_vars

NextSeq ==
    /\ \E r \in Runs :
          \/ Quiet(r) /\ LoadConfig(r)
          \/ Exit(r)
          \/ Fetch(r)
          \/ SkipEmpty(r)
          \/ Transform(r)
          \/ NotifySuccess(r)
          \/ MarkProcessed(r)
          \/ NotifyFailure(r)
    /\ Len(Faults(calls')) <= MaxFaults

SpecSeq == InitRuns /\ [][NextSeq]_vars

(***************************************************************************)
(* Specification: the functions of the clients applied to arguments drawn  *)
(* from bounded sets.  pin holds the function and its arguments, pout the  *)
(* value returned (or the exception raised).                               *)
(***************************************************************************)
\* MaxAckLen: length of the body of a webhook answer
MaxAckLen == 3

\* the texts over the characters of chars, up to length n
Texts(chars, n) == UNION {[1..k -> chars] : k \in 0..n}

\* bodies of a webhook answer: "ok" and its near misses
AckChars == {"o", "k", "O", " ", "\n"}
SendMessageInputs ==
    {[fn |-> "send_message", resp |-> [http |-> h, text |-> t]] :
        h \in HttpOutcomes, t \in Texts(AckChars, MaxAckLen)}

\* MaxContentLen: length of the text handed to GeminiClient.process
MaxContentLen == 3

\* texts handed to process: blank, whitespace only, and with a letter
ContentChars == {" ", "\n", "\t", "a"}
ProcessInputs ==
    {[fn |-> "process", content |-> t, remote |-> g] :
        t \in Texts(ContentChars, MaxContentLen), g \in GeminiOutcomes}

\* MaxResultLen, MaxOriginalLen: length of the longest result text and of the
\* longest original text handed to send_processed_result
MaxResultLen == 5000
MaxOriginalLen == 400

\* a text of n characters whose k-th character is the last digit of k, and
\* one whose characters alternate between p and q
DigitText(n) == [k \in 1..n |-> Digit(k % 10)]
LetterText(n) == [k \in 1..n |-> IF k % 2 = 1 THEN "p" ELSE "q"]

\* lengths around the three limits of send_processed_result
ResultLens ==
    {0, 1, FallbackLimit - 1, FallbackLimit, FallbackLimit + 1,
     ResultLimit - 1, ResultLimit, ResultLimit + 1, MaxResultLen}
OriginalLens ==
    {0, 1, OriginalLimit - 1, OriginalLimit, OriginalLimit + 1, MaxOriginalLen}

SendProcessedResultInputs ==
    {[fn |-> "send_processed_result", title |-> <<"a">>,
      original_content |-> LetterText(o), processed_result |-> DigitText(n),
      notion_url |-> u] :
        o \in OriginalLens, n \in ResultLens, u \in {<<>>, <<"u">>}}

\* values of NOTION_CONTENT_PROPERTIES after the split of load_config
Configs ==
    {<<Title, Body>>, <<Body, Title>>, <<NameProp, Body>>, <<Title>>, <<Body>>, <<>>}

\* a database of pages of the given kinds, with the checkbox set on "done"
\* pages, the configured fields and the outcome of the block listing of
\* every page
GetUnprocessedItemsInput(kinds, cfg, bh) ==
    [fn |-> "get_unprocessed_items",
     store |-> [i \in DOMAIN kinds |-> PageOf(kinds[i], i)],
     flags |-> [i \in DOMAIN kinds |-> kinds[i] = "done"],
     cfg |-> cfg,
     blockHttp |-> bh]

\* MaxListLen: entries of a list-valued attribute (title, rich_text,
\* multi_select, people, relation)
MaxListLen == 2

\* the kinds _extract_property_value has a branch for
SupportedKinds ==
    {"title", "rich_text", "number", "select", "multi_select", "date", "checkbox",
     "url", "email", "phone_number", "people", "relation"}

\* values of an attribute of each kind: lists of plain texts, optional
\* numbers, names, dates and texts (null or missing included), user entries
\* with a name, a null name or no name, and kinds without a branch
Lists(S) == UNION {[1..k -> S] : k \in 0..MaxListLen}
ExtractInputs ==
    {[fn |-> "_extract_property_value", prop |-> [type |-> t, val |-> v]] :
        t \in {"title", "rich_text"}, v \in Lists({<<>>, <<"a">>, <<" ">>})}
    \cup {[fn |-> "_extract_property_value", prop |-> [type |-> "number", val |-> v]] :
        v \in {Absent, Null, Some(0), Some(7), Some(12)}}
    \cup {[fn |-> "_extract_property_value", prop |-> [type |-> "select", val |-> v]] :
        v \in {Absent, Null, Some(<<"s">>)}}
    \cup {[fn |-> "_extract_property_value", prop |-> [type |-> t, val |-> v]] :
        t \in {"multi_select", "relation"}, v \in Lists({<<"x">>, <<"y">>})}
    \cup {[fn |-> "_extract_property_value", prop |-> [type |-> "date", val |-> v]] :
        v \in {Absent, Null}
              \cup {Some([start |-> <<"d">>, end |-> e]) :
                       e \in {Absent, Null, Some(<<>>), Some(<<"e">>)}}}
    \cup {[fn |-> "_extract_property_value", prop |-> [type |-> "checkbox", val |-> v]] :
        v \in {Absent, Null, Some(TRUE), Some(FALSE)}}
    \cup {[fn |-> "_extract_property_value", prop |-> [type |-> t, val |-> v]] :
        t \in {"url", "email", "phone_number"},
        v \in {Absent, Null, Some(<<>>), Some(<<"u">>)}}
    \cup {[fn |-> "_extract_property_value", prop |-> [type |-> "people", val |-> v]] :
        v \in Lists({Absent, Null, Some(<<"n">>)})}
    \cup {[fn |-> "_extract_property_value", prop |-> [type |-> t, val |-> Absent]] :
        t \in {"formula", "files", "status", ""}}

InitFn ==
    /\ \/ pin \in SendMessageInputs
       \/ pin \in ExtractInputs
       \/ pin \in ProcessInputs
       \/ pin \in SendProcessedResultInputs
       \/ \E n \in 0..MaxRecords :
            \E kinds \in [1..n -> FetchKinds], cfg \in Configs,
               bh \in [1..n -> HttpOutcomes] :
                 pin = GetUnprocessedItemsInput(kinds, cfg, bh)
    /\ pout = NoFn
    /\ db = <<>>
    /\ processed = <<>>
    /\ config = DefaultContentProperties
    /\ calls = <<>>
    /\ pc = [r \in Runs |-> "off"]
    /\ dry_run = [r \in Runs |-> FALSE]
    /\ items = [r \in Runs |-> <<>>]
    /\ idx = [r \in Runs |-> 0]
    /\ local = [r \in Runs |-> NoLocal]
    /\ results = [r \in Runs |-> <<>>]
    /\ ret = [r \in Runs |-> <<>>]
    /\ env = {RequiredEnv[k] : k \in 1..Len(RequiredEnv)}
    /\ exit_code = [r \in Runs |-> NoExit]

\* the function of pin returns out
Returns(out) ==
    /\ pout = NoFn
    /\ pout' = [fn |-> pin.fn, out |-> out]
    /\ UNCHANGED <<db, processed, config, calls, pc, dry_run, items, idx, local,
                   results, ret, env, exit_code, pin>>

\* SlackClient.send_message(payload) with the webhook answering pin.resp
ApplySendMessage ==
    /\ pin.fn = "send_message"
    /\ Returns(send_message(pin.resp))

\* GeminiClient.process(content) with the model behaving as pin.remote
ApplyProcess ==
    /\ pin.fn = "process"
    /\ Returns(process(pin.content, pin.remote))

\* SlackClient.send_processed_result: the payload it hands to send_message
ApplySendProcessedResult ==
    /\ pin.fn = "send_processed_result"
    /\ Returns(ProcessedPayload(pin.title, pin.original_content,
                                pin.processed_result, pin.notion_url))

\* NotionClient.get_unprocessed_items once the query has answered: the items
\* returned and the pages whose blocks were listed
ApplyGetUnprocessedItems ==
    /\ pin.fn = "get_unprocessed_items"
    /\ Returns([items |-> get_unprocessed_items(pin.store, pin.flags, pin.cfg,
                                                pin.blockHttp),
                listed |-> BlockListings(pin.store, pin.flags, pin.cfg)])

\* NotionClient._extract_property_value(pin.prop)
ApplyExtract ==
    /\ pin.fn = "_extract_property_value"
    /\ Returns(_extract_property_value(pin.prop))

NextFn ==
    \/ ApplyExtract
    \/ ApplySendMessage
    \/ ApplyProcess
    \/ ApplySendProcessedResult
    \/ ApplyGetUnprocessedItems

SpecFn == InitFn /\ [][NextFn]_vars

(***************************************************************************)
(* Observations on the call log                                            *)
(***************************************************************************)
ItemOps == {"transform", "notify_success", "mark_processed", "notify_failure"}

\* the calls run r made for page id, in order
CallsFor(r, id) == SelectSeq(calls, LAMBDA c : c.run = r /\ c.op \in ItemOps /\ c.id = id)

\* the calls of kind op run r made for page id
CallsOf(r, op, id) == SelectSeq(calls, LAMBDA c : c.run = r /\ c.op = op /\ c.id = id)

\* the calls run r made to the transform, notify and commit services
ServiceCalls(r) == SelectSeq(calls, LAMBDA c : c.run = r /\ c.op \in ItemOps)

OpsOf(cs) == [k \in 1..Len(cs) |-> cs[k].op]

FetchFailed(r) ==
    \E k \in 1..Len(calls) :
        calls[k].run = r /\ calls[k].op = "fetch" /\ calls[k].out = "NotionClientError"

\* the answer of the query of run r was not a list of pages
FetchEscaped(r) ==
    \E k \in 1..Len(calls) :
        calls[k].run = r /\ calls[k].op = "fetch" /\ calls[k].out = "AttributeError"

\* position in items[r] of the item with page id
PosOf(r, id) == CHOOSE i \in 1..Len(items[r]) : items[r][i].page_id = id

(***************************************************************************)
(* Claims                                                                  *)
(***************************************************************************)
Returned(r) == pc[r] = "done" /\ ~dry_run[r]

\* C1: a run that is not a dry run and whose fetch returned N items returns
\* exactly N results, the i-th result holding the i-th fetched item, whatever
\* the transform, notify and commit calls answered; run() never raises.
C1_OneResultPerItemInFetchOrder ==
    \A r \in Runs :
        /\ pc[r] = "raised" => FetchEscaped(r)
        /\ Returned(r) =>
             /\ Len(ret[r]) = Len(items[r])
             /\ \A i \in 1..Len(ret[r]) : ret[r][i].item = items[r][i]

\* C1 witness: a finished run over two items in which a transform call raised
\* and a notification raised, with both results present
C1_Witness ==
    /\ Returned(1) /\ Len(items[1]) = 2 /\ Len(ret[1]) = 2
    /\ \E k \in 1..Len(calls) : calls[k].out = "GeminiClientError"
    /\ \E k \in 1..Len(calls) : calls[k].out = "SlackClientError"
    /\ \E k \in 1..Len(calls) : calls[k].op = "mark_processed" /\ calls[k].out = "False"

\* an item some content field of which carries text
NonEmptyContent(item) == \E k \in 1..Len(item.content) : item.content[k].value # <<>>

\* in run r the transform call of item k failed and every transform, notify
\* and commit call made for another item succeeded
OnlyTransformFails(r, k) ==
    /\ \E j \in 1..Len(calls) :
          /\ calls[j].run = r /\ calls[j].op = "transform"
          /\ calls[j].id = items[r][k].page_id /\ calls[j].out # "text"
    /\ \A j \in 1..Len(calls) :
          (/\ calls[j].run = r
           /\ calls[j].op \in {"transform", "notify_success", "mark_processed"}
           /\ calls[j].id # items[r][k].page_id)
          => calls[j].out \in {"text", "True"}

\* C2: when only item k's transform fails in a batch of N items with non-empty
\* content, the run returns N results, a Failure at k and Success elsewhere,
\* and every other item (those after k included) is transformed, notified and
\* committed.
C2_PartialFailureIsolation ==
    \A r \in Runs : \A k \in 1..Len(items[r]) :
        (/\ Returned(r)
         /\ \A i \in 1..Len(items[r]) : NonEmptyContent(items[r][i])
         /\ OnlyTransformFails(r, k))
        => /\ Len(ret[r]) = Len(items[r])
           /\ \A i \in 1..Len(items[r]) :
                 /\ i <= Len(ret[r])
                 /\ ret[r][i].success = (i # k)
                 /\ i # k => OpsOf(CallsFor(r, items[r][i].page_id))
                               = <<"transform", "notify_success", "mark_processed">>

\* C2 witness: two items with content, the first one's transform failed and
\* the second was processed to the end
C2_Witness ==
    /\ Returned(1) /\ Len(items[1]) = 2
    /\ \A i \in 1..2 : NonEmptyContent(items[1][i])
    /\ OnlyTransformFails(1, 1)
    /\ ~ret[1][1].success /\ ret[1][2].success
    /\ processed[items[1][2].page_id]

\* an item every content field of which is blank
AllFieldsBlank(item) == \A k \in 1..Len(item.content) : strip(item.content[k].value) = <<>>

\* C3: an item whose every content field is blank, whatever its title, gets
\* the empty-content Failure and the transform capability is not called for it.
C3_EmptyContentShortCircuit ==
    \A r \in Runs : \A i \in 1..Len(results[r]) :
        AllFieldsBlank(items[r][i])
        => /\ ~results[r][i].success
           /\ results[r][i].error_message = MsgEmptyContent
           /\ CallsOf(r, "transform", items[r][i].page_id) = <<>>

\* run r made a call of kind op for item i that answered out
Answered(r, i, op, out) ==
    \E j \in 1..Len(calls) :
        /\ calls[j].run = r /\ calls[j].op = op
        /\ calls[j].id = items[r][i].page_id /\ calls[j].out = out

\* C4: after a successful transform, a notify_success that returns false
\* and/or a mark_processed that returns false leaves the outcome Success, and
\* the batch goes on with the next item.
C4_BestEffortIndependence ==
    \A r \in Runs : \A i \in 1..Len(items[r]) :
        (Answered(r, i, "notify_success", "False") \/ Answered(r, i, "mark_processed", "False"))
        => IF i <= Len(results[r])
           THEN /\ results[r][i].success
                /\ results[r][i].gemini_result = ModelText
                /\ i < Len(items[r]) => idx[r] > i
           ELSE pc[r] = "commit" /\ idx[r] = i

\* C4 witness: the first of two items had both its notification and its commit
\* answered false, is a Success, and the second item has been processed
C4_Witness ==
    /\ Len(results[1]) = 2
    /\ Answered(1, 1, "notify_success", "False")
    /\ Answered(1, 1, "mark_processed", "False")
    /\ results[1][1].success

\* C5: after a successful transform, a notify_success that raises the delivery
\* error leaves the outcome Success.
C5_NotifyErrorKeepsSuccess ==
    \A r \in Runs : \A i \in 1..Len(results[r]) :
        (Answered(r, i, "transform", "text")
         /\ Answered(r, i, "notify_success", "SlackClientError"))
        => results[r][i].success

\* C6: notify_failure is called exactly once for every item whose outcome is a
\* Failure with a reason, never for a Success; for an empty-content item no
\* transform, notify_success or mark_processed call is made.
C6_FailureNotifiedOnce ==
    \A r \in Runs : \A i \in 1..Len(items[r]) :
        LET id == items[r][i].page_id
            sent == Len(CallsOf(r, "notify_failure", id))
        IN IF i <= Len(results[r])
           THEN LET res == results[r][i]
                    pending == i = Len(results[r]) /\ pc[r] = "notify_failure"
                IN /\ res.success => sent = 0
                   /\ (~res.success /\ res.error_message # <<>>)
                        => sent = (IF pending THEN 0 ELSE 1)
                   /\ res.error_message = MsgEmptyContent
                        => OpsOf(CallsFor(r, id)) \in {<<>>, <<"notify_failure">>}
           ELSE sent = 0

\* C6 witness: a finished run with an empty-content item notified once and
\* nothing else called for it, and a Success never notified as failed
C6_Witness ==
    /\ Returned(1) /\ Len(ret[1]) = 2
    /\ ret[1][1].error_message = MsgEmptyContent
    /\ OpsOf(CallsFor(1, items[1][1].page_id)) = <<"notify_failure">>
    /\ ret[1][2].success
    /\ CallsOf(1, "notify_failure", items[1][2].page_id) = <<>>

\* C7: a notify_failure call that answers false or raises the delivery error
\* does not leave run(), changes no recorded result, and the run goes on with
\* the next item (or returns the results after the last one).
C7_FailedErrorNotificationSwallowed ==
    [][\A r \in Runs :
         (/\ pc[r] = "notify_failure"
          /\ Len(calls') = Len(calls) + 1
          /\ calls'[Len(calls')].run = r
          /\ calls'[Len(calls')].op = "notify_failure"
          /\ calls'[Len(calls')].out \in {"False", "SlackClientError"})
         => /\ results' = results
            /\ IF idx[r] < Len(items[r])
               THEN pc'[r] = "process" /\ idx'[r] = idx[r] + 1
               ELSE pc'[r] = "done" /\ ret'[r] = results[r]]_vars

\* C7 witness: the error notification of the first item raised, and the
\* second item was still processed to a Success
C7_Witness ==
    /\ Returned(1) /\ Len(ret[1]) = 2
    /\ Answered(1, 1, "notify_failure", "SlackClientError")
    /\ ~ret[1][1].success
    /\ ret[1][2].success /\ Answered(1, 2, "mark_processed", "True")

\* C8: for every Success item, transform, notify_success and mark_processed
\* are each called exactly once for it, in that order, the commit addressing
\* the item's own record; and the calls of a run follow the item order.
C8_PerItemOrdering ==
    \A r \in Runs :
        /\ \A i \in 1..Len(results[r]) :
              results[r][i].success
              => /\ OpsOf(CallsFor(r, items[r][i].page_id))
                      = <<"transform", "notify_success", "mark_processed">>
                 /\ Answered(r, i, "mark_processed", "True")
                      => processed[items[r][i].page_id]
        /\ LET sc == ServiceCalls(r)
           IN \A a, b \in 1..Len(sc) :
                 a < b => PosOf(r, sc[a].id) <= PosOf(r, sc[b].id)

\* C8 witness: two Success items, the calls of the first all made before the
\* calls of the second
C8_Witness ==
    /\ Len(results[1]) = 2
    /\ results[1][1].success /\ results[1][2].success
    /\ Len(ServiceCalls(1)) = 6
    /\ ServiceCalls(1)[3].id = items[1][1].page_id
    /\ ServiceCalls(1)[4].id = items[1][2].page_id

\* C9: a dry run ends right after the fetch (or with the error of a query
\* answer that is not a list of pages): no transform, notify or commit call,
\* no status flag changed, no result, and the empty list returned.
C9_DryRunTouchesNothing ==
    [][\A r \in Runs :
         dry_run'[r]
         => /\ pc'[r] = "done" \/ (pc'[r] = "raised" /\ FetchEscaped(r)')
            /\ ret'[r] = <<>>
            /\ results'[r] = <<>>
            /\ \A j \in 1..Len(calls') : calls'[j].run = r => calls'[j].op = "fetch"
            /\ pc'[r] # pc[r] => processed' = processed]_vars

\* C9 witness: a dry run that fetched two items has returned
C9_Witness ==
    /\ dry_run[1] /\ pc[1] = "done" /\ Len(items[1]) = 2
    /\ \A i \in 1..2 : ~processed[items[1][i].page_id]

\* C10: a failed fetch ends the run with the empty list, without raising and
\* without a transform, notify or commit call; and a run whose fetch answered
\* never ends before its last item, whatever call failed.
C10_OnlyFetchFailureEndsEarly ==
    \A r \in Runs :
        /\ pc[r] = "raised" => FetchEscaped(r)
        /\ FetchFailed(r)
           => pc[r] = "done" /\ ret[r] = <<>> /\ items[r] = <<>> /\ ServiceCalls(r) = <<>>
        /\ (pc[r] = "done" /\ ~FetchFailed(r) /\ ~dry_run[r] /\ items[r] # <<>>)
           => /\ Len(results[r]) = Len(items[r])
              /\ CallsFor(r, items[r][Len(items[r])].page_id) # <<>>

\* C10 witness: the fetch failed on a database holding unprocessed pages and
\* the run has returned
C10_Witness ==
    /\ FetchFailed(1) /\ pc[1] = "done" /\ ret[1] = <<>>
    /\ Len(db) = 2 /\ \A i \in 1..2 : ~processed[i]

\* the calls run r made, the fetch included
CallsBy(r) == SelectSeq(calls, LAMBDA c : c.run = r)

MissingEnv == \E k \in 1..Len(RequiredEnv) : RequiredEnv[k] \notin env

\* C11: a process that has exited gave code 2 exactly when a required
\* configuration value is absent, and then it made no fetch, transform, notify
\* or commit call; otherwise it gave 1 when an error escaped the run or some
\* result is a Failure, and 0 when the run was a dry run, returned no result
\* or returned only Success results.  The code is a function of "some result
\* failed" alone.
C11_ExitCodeDecision ==
    \A r \in Runs :
        exit_code[r] # NoExit =>
            LET failures == {k \in 1..Len(ret[r]) : ~ret[r][k].success}
            IN /\ MissingEnv => exit_code[r] = 2 /\ CallsBy(r) = <<>>
               /\ ~MissingEnv /\ pc[r] = "raised" => exit_code[r] = 1
               /\ ~MissingEnv /\ pc[r] = "done" =>
                    exit_code[r] = IF dry_run[r] \/ ret[r] = <<>> \/ failures = {}
                                   THEN 0 ELSE 1

\* C11 witness: a process that exited with 1 after a run whose first item
\* succeeded and whose second item failed
C11_Witness ==
    /\ exit_code[1] = 1 /\ pc[1] = "done" /\ Len(ret[1]) = 2
    /\ ret[1][1].success /\ ~ret[1][2].success

\* the query of run r answered with a list of pages
FetchAnswered(r) ==
    \E k \in 1..Len(calls) :
        calls[k].run = r /\ calls[k].op = "fetch" /\ calls[k].out = "ok"

Fetched(r, id) == \E i \in 1..Len(items[r]) : items[r][i].page_id = id

\* C12: when runs do not overlap, a record whose checkbox a commit call has
\* set stays set, no call of any kind is made for it afterwards, and no later
\* run fetches it; and a record whose checkbox is not set is in the batch of
\* every run whose query was answered: the checkbox alone decides.
C12_FlaggedRecordNeverHandledAgain ==
    /\ \A j \in 1..Len(calls) :
          calls[j].op = "mark_processed" /\ calls[j].out = "True" =>
              /\ processed[calls[j].id]
              /\ \A k \in (j + 1)..Len(calls) : calls[k].id # calls[j].id
              /\ \A r \in Runs : r > calls[j].run => ~Fetched(r, calls[j].id)
    /\ \A r \in Runs : \A i \in 1..Len(db) :
          FetchAnswered(r) /\ ~processed[db[i].id] => Fetched(r, db[i].id)

\* C12 witness: the first run committed record 1 and left record 2, and the
\* second run, which started after the first had exited, fetched record 2
\* alone and has exited
C12_Witness ==
    /\ Len(db) = 2
    /\ \E j \in 1..Len(calls) :
          /\ calls[j].run = 1 /\ calls[j].op = "mark_processed"
          /\ calls[j].out = "True" /\ calls[j].id = 1
    /\ Fetched(1, 2)
    /\ FetchAnswered(2) /\ Len(items[2]) = 1 /\ Fetched(2, 2)
    /\ exit_code[2] # NoExit

\* position in the log of the query of run r (0 before the query)
FetchPos(r) ==
    IF \E k \in 1..Len(calls) : calls[k].run = r /\ calls[k].op = "fetch"
    THEN CHOOSE k \in 1..Len(calls) : calls[k].run = r /\ calls[k].op = "fetch"
    ELSE 0

\* run r got a text from the transform call for id and its success
\* notification for id was acknowledged
Delivered(r, id) ==
    /\ \E k \in 1..Len(calls) :
          /\ calls[k].run = r /\ calls[k].id = id
          /\ calls[k].op = "transform" /\ calls[k].out = "text"
    /\ \E k \in 1..Len(calls) :
          /\ calls[k].run = r /\ calls[k].id = id
          /\ calls[k].op = "notify_success" /\ calls[k].out = "True"

\* C13: with runs that overlap, the checkbox protects a record only from the
\* runs that query after its commit: whenever a run makes a call for a record
\* after another run has committed it, that run had queried before the commit.
\* Two runs that both query before either commits can each transform and
\* notify the same record (the witness).
C13_FlagIsTheOnlySafeguard ==
    \A j \in 1..Len(calls) :
        calls[j].op = "mark_processed" /\ calls[j].out = "True" =>
            \A k \in (j + 1)..Len(calls) :
                calls[k].id = calls[j].id =>
                    /\ calls[k].run # calls[j].run
                    /\ FetchPos(calls[k].run) < j

\* C13 witness: both runs queried before either committed, and the same
\* record was transformed and success-notified by both
C13_Witness ==
    \E id \in 1..Len(db) :
        /\ Delivered(1, id) /\ Delivered(2, id)
        /\ FetchPos(1) > 0 /\ FetchPos(2) > 0
        /\ \A j \in 1..Len(calls) :
              calls[j].op = "mark_processed" => FetchPos(1) < j /\ FetchPos(2) < j
        /\ \E j \in 1..Len(calls) : calls[j].op = "mark_processed" /\ calls[j].out = "True"

\* C14: send_message returns True exactly when the exchange succeeded and the
\* body of the answer is the two characters "ok"; with any other body it
\* returns False; when the exchange failed (HTTP error status or transport
\* error) it raises SlackClientError.
C14_AckIsLiteralOk ==
    pout.fn = "send_message" =>
        LET exact == Len(pin.resp.text) = 2 /\ pin.resp.text[1] = "o" /\ pin.resp.text[2] = "k"
        IN /\ pout.out = "True" <=> (pin.resp.http = "ok" /\ exact)
           /\ pin.resp.http = "ok" /\ ~exact => pout.out = "False"
           /\ pin.resp.http # "ok" => pout.out = "SlackClientError"

\* C14 witness: the webhook answered "ok" followed by a newline and
\* send_message returned False
C14_Witness ==
    /\ pout.fn = "send_message"
    /\ pin.resp = [http |-> "ok", text |-> <<"o", "k", "\n">>]
    /\ pout.out = "False"

\* C15: the commit step of run r for the item in progress appends exactly
\* one update call, for the id of that item; when the exchange succeeds it
\* returns True and the checkbox of that record, and of no other, is set;
\* when the exchange fails (HTTP error status or transport error) it returns
\* False, no checkbox changes and nothing is raised.
C15_MarkProcessedContract ==
    [][\A r \in Runs :
         pc[r] = "commit" /\ pc'[r] # pc[r]
         => LET c == calls'[Len(calls')]
                id == items[r][idx[r]].page_id
            IN /\ Len(calls') = Len(calls) + 1
               /\ SubSeq(calls', 1, Len(calls)) = calls
               /\ c.run = r /\ c.op = "mark_processed" /\ c.id = id
               /\ c.arg = "ok" =>
                    /\ c.out = "True"
                    /\ processed' = [processed EXCEPT ![id] = TRUE]
               /\ c.arg # "ok" =>
                    /\ c.out = "False"
                    /\ processed' = processed
               /\ pc'[r] # "raised"]_vars

\* C15 witness: the update of record 1 failed with an HTTP error status,
\* returned False, and the checkbox of record 1 is not set
C15_Witness ==
    /\ \E j \in 1..Len(calls) :
          /\ calls[j].op = "mark_processed" /\ calls[j].id = 1
          /\ calls[j].arg = "HTTPError" /\ calls[j].out = "False"
    /\ ~processed[1]
    /\ pc[1] = "done"

\* the text has no character other than whitespace
Blank(t) == \A k \in 1..Len(t) : t[k] \in {" ", "\n", "\t"}

\* C16 as stated: on blank or whitespace-only text process fails (raises) and
\* makes no remote call; on a remote error or an answer without text it
\* fails with GeminiClientError.
C16_BlankInputFails ==
    pout.fn = "process" =>
        /\ Blank(pin.content) => pout.out.kind = "raise" /\ ~pout.out.called
        /\ ~Blank(pin.content) /\ pin.remote # "text" => pout.out.kind = "raise"

\* C16 amended: on blank or whitespace-only text process returns the empty
\* text without raising and without a remote call; on text that is not blank
\* it makes the remote call and raises GeminiClientError when the call
\* raises or answers without text, and returns the text of the answer
\* otherwise.
C16_BlankInputReturnsEmpty ==
    pout.fn = "process" =>
        /\ Blank(pin.content) =>
             /\ pout.out.kind = "return" /\ pout.out.text = <<>>
             /\ ~pout.out.called
        /\ ~Blank(pin.content) =>
             /\ pout.out.called
             /\ pin.remote = "text" =>
                  pout.out.kind = "return" /\ pout.out.text # <<>>
             /\ pin.remote = "notext" =>
                  pout.out.kind = "raise" /\ pout.out.msg = MsgGeminiNoText
             /\ pin.remote = "error" =>
                  pout.out.kind = "raise" /\ pout.out.msg = MsgGeminiCallFailed

\* C16 witness: process was given a space and a newline while the model was
\* ready to answer, and returned the empty text without calling it
C16_Witness ==
    /\ pout.fn = "process"
    /\ pin.content = <<" ", "\n">> /\ pin.remote = "text"
    /\ pout.out.kind = "return" /\ pout.out.text = <<>> /\ ~pout.out.called

Min(a, b) == IF a < b THEN a ELSE b

\* C17: for a result text of length L the section block of the payload is
\* exactly the first min(L, 3000) characters of the result, and the fallback
\* text is the heading, then exactly the first min(L, 500) characters of the
\* result, then the marker "...".
C17_TruncationExactness ==
    pout.fn = "send_processed_result" =>
        LET result == pin.processed_result
            L == Len(result)
            heading == Memo \o pin.title \o <<"\n", "\n">>
            h == Len(heading)
            section == pout.out.section
            text == pout.out.text
        IN /\ Len(section) = Min(L, 3000)
           /\ \A k \in 1..Len(section) : section[k] = result[k]
           /\ Len(text) = h + Min(L, 500) + 3
           /\ \A k \in 1..h : text[k] = heading[k]
           /\ \A k \in 1..Min(L, 500) : text[h + k] = result[k]
           /\ \A k \in 1..3 : text[h + Min(L, 500) + k] = "."

\* C17 witness: a result of 5000 characters gave a section of 3000 characters
\* and a fallback text ending with 500 characters of the result and the marker
C17_Witness ==
    /\ pout.fn = "send_processed_result"
    /\ Len(pin.processed_result) = 5000
    /\ Len(pout.out.section) = 3000
    /\ Len(pout.out.text) = Len(Memo \o pin.title) + 2 + 500 + 3

\* t occurs in s as a run of consecutive characters (t not empty)
Occurs(t, s) ==
    \E k \in 1..(Len(s) - Len(t) + 1) :
        s[k] = t[1] /\ SubSeq(s, k, k + Len(t) - 1) = t

\* C18: the payload of send_processed_result shows the original text: the
\* text itself when it has at most 300 characters, its first 300 characters
\* followed by "..." when it is longer.
C18_OriginalTextDisplayed ==
    pout.fn = "send_processed_result" /\ pin.original_content # <<>> =>
        LET original == pin.original_content
            shown == IF Len(original) > 300
                     THEN SubSeq(original, 1, 300) \o <<".", ".", ".">>
                     ELSE original
        IN \/ Occurs(shown, pout.out.header)
           \/ Occurs(shown, pout.out.section)
           \/ Occurs(shown, pout.out.context)
           \/ Occurs(shown, pout.out.text)

\* the pages the query of the function under study answers with
Pending == SelectSeq(pin.store, LAMBDA p : ~pin.flags[p.id])

HasAttr(p, name) == \E j \in 1..Len(p.properties) : p.properties[j].name = name

\* the text extracted from the body attribute of page p; empty without one
DirectBody(p) ==
    IF HasAttr(p, Body)
    THEN _extract_property_value(
           p.properties[CHOOSE j \in 1..Len(p.properties) : p.properties[j].name = Body].prop)
    ELSE <<>>

Keys(content) == {content[j].name : j \in 1..Len(content)}

Range(seq) == {seq[j] : j \in 1..Len(seq)}

\* C19: get_unprocessed_items returns one item per page of the answer; the
\* blocks of a page are listed only when the body is a configured field and
\* the text extracted from the body attribute is empty; a body attribute
\* with text is returned as it is, blocks or not; and when the listing of the
\* blocks fails the item is returned with an empty body.
C19_BodyFallback ==
    pout.fn = "get_unprocessed_items" =>
        /\ Len(pout.out.items) = Len(Pending)
        /\ \A k \in 1..Len(Pending) :
              LET p == Pending[k]
                  item == pout.out.items[k]
                  listed == p.id \in Range(pout.out.listed)
              IN /\ item.page_id = p.id
                 /\ listed => Body \in Range(pin.cfg) /\ DirectBody(p) = <<>>
                 /\ Body \in Range(pin.cfg) /\ DirectBody(p) # <<>> =>
                      ContentGet(item.content, Body) = DirectBody(p)
                 /\ listed /\ pin.blockHttp[p.id] # "ok" =>
                      ContentGet(item.content, Body) = <<>>

\* C19 witness: page 1 has an empty body and blocks whose listing failed,
\* page 2 has a body with text and blocks: both items are returned, the
\* first with an empty body, the second with the text of its attribute, and
\* only the blocks of page 1 were listed
C19_Witness ==
    /\ pout.fn = "get_unprocessed_items"
    /\ Len(pout.out.items) = 2
    /\ pin.store[1].blocks # <<>> /\ pin.store[2].blocks # <<>>
    /\ pin.blockHttp[1] = "HTTPError"
    /\ pout.out.listed = <<1>>
    /\ ContentGet(pout.out.items[1].content, Body) = <<>>
    /\ ContentGet(pout.out.items[2].content, Body) = <<"b">>

\* C20 as stated: the keys of the content of every returned item are exactly
\* the configured fields, and no two items of the batch have the same id.
C20_ContentKeysAreConfiguredFields ==
    pout.fn = "get_unprocessed_items" =>
        /\ \A k \in 1..Len(pout.out.items) :
              Keys(pout.out.items[k].content) = Range(pin.cfg)
        /\ \A k, l \in 1..Len(pout.out.items) :
              pout.out.items[k].page_id = pout.out.items[l].page_id => k = l

\* C20 amended: the keys of the content of a returned item are exactly the
\* configured fields that are attributes of the page, each once (an attribute
\* without text is kept with the empty text, a field that is not an attribute
\* of the page is left out), and the body when it was filled from the blocks;
\* no two items of the batch have the same id.
C20_ContentKeysAreConfiguredAttributes ==
    pout.fn = "get_unprocessed_items" =>
        /\ Len(pout.out.items) = Len(Pending)
        /\ \A k \in 1..Len(Pending) :
              LET p == Pending[k]
                  content == pout.out.items[k].content
                  filled == /\ Body \in Range(pin.cfg) /\ DirectBody(p) = <<>>
                            /\ _get_page_content(p, pin.blockHttp[p.id]) # <<>>
              IN /\ Keys(content) =
                      {n \in Range(pin.cfg) : HasAttr(p, n)}
                          \cup (IF filled THEN {Body} ELSE {})
                 /\ Cardinality(Keys(content)) = Len(content)
                 /\ \A n \in Range(pin.cfg) :
                      HasAttr(p, n) /\ ~(n = Body /\ filled) =>
                          ContentGet(content, n) =
                              _extract_property_value(
                                p.properties[CHOOSE j \in 1..Len(p.properties) :
                                               p.properties[j].name = n].prop)
        /\ \A k, l \in 1..Len(pout.out.items) :
              pout.out.items[k].page_id = pout.out.items[l].page_id => k = l

\* C20 witness: with the fields Title and Body configured, two pages whose
\* title attribute has another name are returned with the key Body alone,
\* the second one with an empty body
C20_Witness ==
    /\ pout.fn = "get_unprocessed_items"
    /\ pin.cfg = <<Title, Body>>
    /\ Len(pout.out.items) = 2
    /\ pout.out.items[1].content = <<[name |-> Body, value |-> <<"b">>]>>
    /\ pout.out.items[2].content = <<[name |-> Body, value |-> <<>>]>>

\* C21: _extract_property_value returns a text, without raising, for every
\* value of every kind it has a branch for, and the empty text for every
\* other kind.
C21_ExtractTotal ==
    pout.fn = "_extract_property_value" =>
        /\ pout.out # TypeError
        /\ pin.prop.type \notin SupportedKinds => pout.out = <<>>

\* C22: every commit call of a run follows a transform call of the same run
\* for the same record that returned a text; and a record whose result in
\* the run is a Failure (empty content, failed transform, error raised by
\* the notification) received no commit call from that run, so the run did
\* not set its checkbox.
C22_CommitOnlyAfterTransformText ==
    \A r \in Runs :
        /\ \A j \in 1..Len(calls) :
              calls[j].run = r /\ calls[j].op = "mark_processed" =>
                  \E k \in 1..(j - 1) :
                      /\ calls[k].run = r /\ calls[k].id = calls[j].id
                      /\ calls[k].op = "transform" /\ calls[k].out = "text"
        /\ \A i \in 1..Len(results[r]) :
              ~results[r][i].success =>
                  /\ CallsOf(r, "mark_processed", results[r][i].item.page_id) = <<>>
                  /\ ~processed[results[r][i].item.page_id]

\* C22 witness: a finished run whose first item succeeded and was committed
\* and whose second item failed after its transform had returned a text
\* (the notification raised): the second record is not committed
C22_Witness ==
    /\ pc[1] = "done" /\ Len(ret[1]) = 2
    /\ ret[1][1].success /\ processed[ret[1][1].item.page_id]
    /\ ~ret[1][2].success /\ ~processed[ret[1][2].item.page_id]
    /\ \E k \in 1..Len(calls) :
          /\ calls[k].id = ret[1][2].item.page_id
          /\ calls[k].op = "transform" /\ calls[k].out = "text"

\* C23: within a run, a record whose success notification was acknowledged
\* (send_processed_result returned True) receives no failure notification
\* from that run, whether the commit that follows returns True or False.
C23_NoFailureNoticeAfterDeliveredSuccess ==
    \A r \in Runs : \A j \in 1..Len(calls) :
        calls[j].run = r /\ calls[j].op = "notify_success" /\ calls[j].out = "True" =>
            /\ CallsOf(r, "notify_failure", calls[j].id) = <<>>
            /\ \A i \in 1..Len(results[r]) :
                  results[r][i].item.page_id = calls[j].id => results[r][i].success

\* C23 witness: the success notification of record 1 was acknowledged, its
\* commit returned False, and the run has ended without a failure
\* notification for record 1
C23_Witness ==
    /\ pc[1] = "done"
    /\ \E j \in 1..Len(calls) :
          /\ calls[j].run = 1 /\ calls[j].id = 1
          /\ calls[j].op = "notify_success" /\ calls[j].out = "True"
    /\ \E j \in 1..Len(calls) :
          /\ calls[j].run = 1 /\ calls[j].id = 1
          /\ calls[j].op = "mark_processed" /\ calls[j].out = "False"
    /\ CallsOf(1, "notify_failure", 1) = <<>>
    /\ ret[1][1].success

\* what the transform call of run r for record id answered ("none": run r
\* made no transform call for it)
TransformOut(r, id) ==
    IF CallsOf(r, "transform", id) = <<>> THEN "none"
    ELSE CallsOf(r, "transform", id)[1].out

\* run r ran to its end, was not a dry run and its query was answered
Completed_Run(r) == pc[r] = "done" /\ ~dry_run[r] /\ FetchAnswered(r)

\* C24: a record whose result in a run is a Failure is not committed by that
\* run, and every later run (not a dry run, query answered) in which the
\* transform call for it answers as before fetches it again and sends
\* another failure notification for it; a record without content is never
\* sent to the transform call and never committed.  The content of a record
\* does not change in this model.
C24_FailedItemRenotifiedEveryRun ==
    \A r1, r2 \in Runs : \A i \in 1..Len(ret[r1]) :
        LET id == ret[r1][i].item.page_id
        IN Completed_Run(r1) /\ ~ret[r1][i].success =>
             /\ CallsOf(r1, "mark_processed", id) = <<>>
             /\ (r1 < r2 /\ Completed_Run(r2)
                    /\ TransformOut(r2, id) = TransformOut(r1, id)) =>
                      /\ Fetched(r2, id)
                      /\ CallsOf(r2, "notify_failure", id) # <<>>
                      /\ IsEmptyInput(ret[r1][i].item) =>
                           CallsOf(r2, "mark_processed", id) = <<>>

\* the kinds of attribute whose raw value can be null or missing
NullableKinds == {"number", "select", "date", "url", "email", "phone_number"}

\* the raw value of an attribute is null or missing
IsNullValue(prop) == prop.type \in NullableKinds /\ prop.val.k \in {"absent", "null"}

\* the page has a configured field and every configured field it has
\* carries a null value
AllFieldsNull(page, cfg) ==
    /\ \E j \in 1..Len(page.properties) : InSeq(page.properties[j].name, cfg)
    /\ \A j \in 1..Len(page.properties) :
         InSeq(page.properties[j].name, cfg) => IsNullValue(page.properties[j].prop)

\* C25: _extract_property_value returns the empty text for a number,
\* select, date, url, email or phone attribute whose raw value is null or
\* missing, and an item that get_unprocessed_items builds from a page whose
\* configured fields all carry null values passes the empty-content test of
\* process_single_item, so that it is not sent to the transform call.
C25_NullValuesAreEmptyContent ==
    /\ (pout.fn = "_extract_property_value" /\ IsNullValue(pin.prop)) =>
          pout.out = <<>>
    /\ pout.fn = "get_unprocessed_items" =>
          \A k \in 1..Len(pout.out.items) :
              AllFieldsNull(pin.store[pout.out.items[k].page_id], pin.cfg) =>
                  IsEmptyInput(pout.out.items[k])
====
